---- MODULE Spec2Model ----
(***************************************************************************)
(* A model of the SciCo indexing pipeline (PdfIndexer over ChromaStorage), *)
(* the retriever's multi_query_search and the research graph of            *)
(* zotero_question_graph.py.                                               *)
(*                                                                         *)
(* Spec          : the indexer over one vector collection.                 *)
(* SpecLibrary   : the selectors of the library client.                    *)
(* SpecChunker   : the chunker on one markdown text.                       *)
(* SpecRetriever : multi_query_search over a fixed collection.             *)
(* SpecLoop      : the research graph over a fixed collection.             *)
(***************************************************************************)
EXTENDS Integers, Sequences, FiniteSets, TLC

(***************************************************************************)
(* Bounds of the model.                                                    *)
(***************************************************************************)
\* indexing calls (update_index, index_all_markdown_files) in one behaviour
MaxCalls == 2

(***************************************************************************)
(* The library snapshot: item_id is unique, every item has a storage key   *)
(* and a pdf.                                                              *)
(***************************************************************************)
ItemIds == {"A", "B"}

StorageKeyOf(item_id) == IF item_id = "A" THEN "KA" ELSE "KB"

StorageKeys == {StorageKeyOf(i) : i \in ItemIds}

Entry(item_id) ==
    [pdf_path |-> item_id,
     metadata |-> [item_id |-> item_id, storage_key |-> StorageKeyOf(item_id)]]

Entries == {Entry(i) : i \in ItemIds}

\* A markdown text is the sequence of the contents its chunks will have; "tbl"
\* stands for content that begins with '|', "txt" for any other content.  Equal
\* tokens are equal in their first 100 characters.
Texts == {<<>>, <<"txt">>, <<"txt", "txt">>, <<"tbl", "txt">>}

\* the texts the converter writes in the indexer's behaviours: an empty file,
\* a file of one chunk, a file of two
ConvertedTexts == {<<>>, <<"txt">>, <<"tbl", "txt">>}

NoFile == [exists |-> FALSE, text |-> <<>>]

File(text) == [exists |-> TRUE, text |-> text]

\* duplicate-free sequences over S of length at most n
RECURSIVE SeqsUpTo(_, _)
SeqsUpTo(S, n) ==
    IF n = 0 THEN {<<>>}
    ELSE LET shorter == SeqsUpTo(S, n - 1)
         IN  shorter \cup
             {Append(s, x) : s \in {t \in shorter : Len(t) = n - 1},
                             x \in S}

Range(s) == {s[j] : j \in 1..Len(s)}

NoDup(s) == \A a, b \in 1..Len(s) : a # b => s[a] # s[b]

\* what a selector resolves to: items of the library, each at most once
Selections == {s \in SeqsUpTo(Entries, Cardinality(Entries)) : NoDup(s)}

(***************************************************************************)
(* ChromaStorage: the collection is a set of chunk documents.              *)
(***************************************************************************)
uids_from_item_id(coll, item_id) ==
    {c.uid : c \in {d \in coll : d.item_id = item_id}}

delete_by_item_id_skip(coll, item_id) == coll

delete_by_item_id(coll, item_id) ==
    LET uids == uids_from_item_id(coll, item_id)
    IN  IF Cardinality(uids) = 0 THEN coll
        ELSE {c \in coll : c.uid \notin uids}

num_deleted_zero(coll, item_id) == 0

\* delete_by_item_id: the number it returns
num_deleted(coll, item_id) ==
    LET uids == uids_from_item_id(coll, item_id)
    IN  IF Cardinality(uids) = 0 THEN 0 ELSE Cardinality(uids)

\* add_documents stamps added_at on every document and inserts them
add_documents(coll, documents, current_timestamp) ==
    coll \cup {[documents[j] EXCEPT !.added_at = current_timestamp] :
                  j \in 1..Len(documents)}

get_collection_stats(coll) ==
    [total_elements |-> Cardinality(coll),
     items |-> [i \in {c.item_id : c \in coll} |->
                  [count |-> Cardinality({c \in coll : c.item_id = i}),
                   storage_key |->
                       (CHOOSE c \in coll : c.item_id = i).storage_key]]]

(***************************************************************************)
(* Chunker.chunk: one document per split, with a fresh uid, split_id in    *)
(* emission order and the caller's metadata merged in.  The annotators     *)
(* raise on an empty list of splits.                                       *)
(***************************************************************************)
numerate_splits(splits) ==
    [j \in 1..Len(splits) |-> [splits[j] EXCEPT !.split_id = j - 1]]

add_uid_to_splits_reused(splits, fresh) ==
    [j \in 1..Len(splits) |-> [splits[j] EXCEPT !.uid = <<0, j>>]]

add_uid_to_splits(splits, fresh) ==
    [j \in 1..Len(splits) |-> [splits[j] EXCEPT !.uid = <<fresh, j>>]]

\* the loop of _annotate_tables_splits from split j on; the table field is
\* the number of the table, 0 standing for False
RECURSIVE annotate_from(_, _, _, _)
annotate_from(splits, j, last_chunk_table, table_counter) ==
    IF j > Len(splits)
    THEN splits
    ELSE IF splits[j].content = "tbl"
    THEN LET counter == IF last_chunk_table THEN table_counter
                                            ELSE table_counter + 1
         IN  annotate_from([splits EXCEPT ![j].table = counter], j + 1,
                           TRUE, counter)
    ELSE annotate_from([splits EXCEPT ![j].table = 0], j + 1,
                       FALSE, table_counter)

annotate_tables_per_chunk(splits) ==
    [j \in 1..Len(splits) |->
        [splits[j] EXCEPT !.table = IF splits[j].content = "tbl" THEN j ELSE 0]]

annotate_tables_splits(splits) == annotate_from(splits, 1, FALSE, 0)

add_additional_metadata(metadata, splits) ==
    [j \in 1..Len(splits) |->
        [splits[j] EXCEPT !.item_id = metadata.item_id,
                          !.storage_key = metadata.storage_key]]

markdown_recursive_splitter(text) ==
    [j \in 1..Len(text) |->
        [uid |-> <<0, 0>>, item_id |-> "", storage_key |-> "", split_id |-> -1,
         table |-> -1, content |-> text[j], added_at |-> 0]]

\* [raised, splits]: raised when an annotator is handed no splits
chunk(text, metadata, fresh) ==
    LET splits == markdown_recursive_splitter(text)
    IN  IF Len(splits) = 0
        THEN [raised |-> TRUE, splits |-> <<>>]
        ELSE [raised |-> FALSE,
              splits |-> add_additional_metadata(metadata,
                            numerate_splits(annotate_tables_splits(
                                add_uid_to_splits(splits, fresh))))]

\* _chunk_markdown: chunk with every exception turned into an empty list
chunk_markdown(text, metadata, fresh) ==
    LET r == chunk(text, metadata, fresh)
    IN  IF r.raised THEN <<>> ELSE r.splits

(***************************************************************************)
(* State.                                                                  *)
(***************************************************************************)
VARIABLES
    index,                 \* the Chroma collection of PdfIndexer.vector_indexer
    md,                    \* markdown cache: storage key -> file
    config,                \* IndexingConfig: force_reindex, skip_existing_markdown
    clock,                 \* source of fresh uuid4 values and of time.time()
    callNo,                \* indexing calls started so far
    pc,                    \* position of the running indexer call
    op,                    \* the running (or last returned) indexer operation
    items,                 \* update_index: the fetched items
    force,                 \* update_index: force or config.force_reindex
    items_to_process,      \* update_index: the filtered items
    pos,                   \* loop position (1-based) in the current loop
    result,                \* counters of the batch, the IndexingResult on return
    markdown_files,        \* index_all_markdown_files: the files found
    indexed_storage_keys,  \* index_all_markdown_files: keys indexed at its start
    index0,                \* history: the collection when the call started
    calls                  \* history: collaborator and callback calls of the call

idxVars == <<index, md, config, clock, callNo, pc, op, items, force,
             items_to_process, pos, result, markdown_files,
             indexed_storage_keys, index0, calls>>

\* the retriever: one call of multi_query_search over the collection
VARIABLES
    distance,      \* embedding distance of a chunk's content from a query
    mq_pc,         \* position of the running multi_query_search call
    mq_queries,    \* its argument queries
    mq_k,          \* its argument k
    mq_pos,        \* position (1-based) in the loop over the queries
    all_results,   \* its local all_results
    seen_ids,      \* its local seen_ids
    mq_results     \* the list it returns

retrVars == <<distance, mq_pc, mq_queries, mq_k, mq_pos, all_results, seen_ids,
              mq_results>>

\* the research graph: the node to run next and the fields of GraphState
VARIABLES
    node,
    user_query,
    search_queries,
    retrieved_documents,
    knowledge_strings,
    assessment_strings,
    search_loop_count,
    max_search_depth,
    max_docs_per_search,
    exclude_references,
    final_response,
    input_keys,    \* the keys of the state the graph was invoked with
    cancel,        \* the host has asked the run to stop
    error          \* the exception that left the graph, "" when none did

loopVars == <<node, user_query, search_queries, retrieved_documents,
              knowledge_strings, assessment_strings, search_loop_count,
              max_search_depth, max_docs_per_search, exclude_references,
              final_response, input_keys, cancel, error>>

\* the chunker on its own: the splits its last call returned
VARIABLES
    last_splits

vars == <<idxVars, retrVars, loopVars, last_splits>>

EmptyResult ==
    [total_items |-> 0, successful |-> 0, failed |-> 0, failed_items |-> <<>>,
     chunks_created |-> 0]

InitIndexer ==
    /\ index = {}
    /\ md = [k \in StorageKeys |-> NoFile]
    /\ config \in [force_reindex : BOOLEAN, skip_existing_markdown : BOOLEAN]
    /\ clock = 1
    /\ callNo = 0
    /\ pc = "idle"
    /\ op = "none"
    /\ items = <<>>
    /\ force = FALSE
    /\ items_to_process = <<>>
    /\ pos = 0
    /\ result = EmptyResult
    /\ markdown_files = <<>>
    /\ indexed_storage_keys = {}
    /\ index0 = {}
    /\ calls = {}

RetrieverIdle ==
    /\ mq_pc = "idle"
    /\ mq_queries = <<>>
    /\ mq_k = 0
    /\ mq_pos = 0
    /\ all_results = <<>>
    /\ seen_ids = {}
    /\ mq_results = <<>>

LoopUnused ==
    /\ node = "unused"
    /\ user_query = ""
    /\ search_queries = <<>>
    /\ retrieved_documents = <<>>
    /\ knowledge_strings = <<>>
    /\ assessment_strings = <<>>
    /\ search_loop_count = 0
    /\ max_search_depth = 0
    /\ max_docs_per_search = 0
    /\ exclude_references = FALSE
    /\ final_response = ""
    /\ input_keys = {}
    /\ cancel = FALSE
    /\ error = ""

(***************************************************************************)
(* PdfIndexer: the steps on one item.  The converter and the embedding     *)
(* store are external: conv is what the converter does when it is invoked  *)
(* ("fail", or the text it writes), addOk whether add_documents returns.   *)
(***************************************************************************)
ConverterOutcomes == {[ok |-> FALSE, text |-> <<>>]} \cup
                     {[ok |-> TRUE, text |-> t] : t \in ConvertedTexts}

skip_conversion_always(exists) == TRUE

\* markdown_path.exists() and self.config.skip_existing_markdown
skip_conversion(exists) == exists /\ config.skip_existing_markdown

\* _convert_to_markdown: [path_ok, md, calls]
convert_to_markdown(metadata, conv, files) ==
    LET storage_key == metadata.storage_key
    IN  IF storage_key = ""
        THEN [path_ok |-> FALSE, md |-> files, calls |-> {}]
        ELSE IF skip_conversion(files[storage_key].exists)
        THEN [path_ok |-> TRUE, md |-> files, calls |-> {}]
        ELSE IF conv.ok
        THEN [path_ok |-> TRUE,
              md |-> [files EXCEPT ![storage_key] = File(conv.text)],
              calls |-> {<<"converter", metadata.item_id>>}]
        ELSE [path_ok |-> FALSE, md |-> files,
              calls |-> {<<"converter", metadata.item_id>>}]

\* _process_markdown_and_index: [success, count, reason, coll, calls, used]
process_markdown_and_index(text, metadata, addOk, coll, now) ==
    LET chunks == chunk_markdown(text, metadata, now)
        chunked == {<<"chunk", metadata.item_id>>}
    IN  IF Len(chunks) = 0
        THEN [success |-> FALSE, count |-> 0, reason |-> "No chunks created",
              coll |-> coll, calls |-> chunked, used |-> FALSE]
        ELSE IF addOk
        THEN [success |-> TRUE, count |-> Len(chunks), reason |-> "",
              coll |-> add_documents(coll, chunks, now),
              calls |-> chunked \cup {<<"add_documents", metadata.item_id>>},
              used |-> TRUE]
        ELSE [success |-> FALSE, count |-> 0, reason |-> "add_documents raised",
              coll |-> coll,
              calls |-> chunked \cup {<<"add_documents", metadata.item_id>>},
              used |-> TRUE]

\* _process_single_item: convert, then chunk and index
process_single_item(e, conv, addOk, coll, files, now) ==
    LET c == convert_to_markdown(e.metadata, conv, files)
    IN  IF ~c.path_ok
        THEN [success |-> FALSE, count |-> 0,
              reason |-> "Markdown conversion failed",
              coll |-> coll, md |-> c.md, calls |-> c.calls, used |-> FALSE]
        ELSE LET r == process_markdown_and_index(
                          c.md[e.metadata.storage_key].text, e.metadata, addOk,
                          coll, now)
             IN  [success |-> r.success, count |-> r.count, reason |-> r.reason,
                  coll |-> r.coll, md |-> c.md, calls |-> c.calls \cup r.calls,
                  used |-> r.used]

record_failed_dropped(failed_items, path, metadata, reason) == failed_items

record_failed(failed_items, path, metadata, reason) ==
    Append(failed_items,
           [pdf_path |-> path, metadata |-> metadata, reason |-> reason])

\* progress_callback(idx / total_items), called at the head of the loop body:
\* the call is recorded with the index of its fraction (the total is the
\* length of the batch) and the number of items processed when it is made
progress_callback(idx, res) ==
    <<"progress_callback", idx, res.successful + res.failed>>

count_item_one_chunk(res, e, r) ==
    IF r.success
    THEN [res EXCEPT !.successful = @ + 1, !.chunks_created = @ + 1]
    ELSE [res EXCEPT !.failed = @ + 1,
                     !.failed_items =
                         record_failed(@, e.pdf_path, e.metadata, r.reason)]

\* the bookkeeping of one processed item in _index_items_batch
count_item(res, e, r) ==
    IF r.success
    THEN [res EXCEPT !.successful = @ + 1, !.chunks_created = @ + r.count]
    ELSE [res EXCEPT !.failed = @ + 1,
                     !.failed_items =
                         record_failed(@, e.pdf_path, e.metadata, r.reason)]

(***************************************************************************)
(* update_index                                                            *)
(***************************************************************************)
filter_decision_never_skip(has_existing, f) ==
    IF has_existing THEN "delete" ELSE "process"

filter_decision(has_existing, f) ==
    IF has_existing
    THEN IF f THEN "delete" ELSE "skip"
    ELSE "process"

\* a library item without a PDF attachment
NoPdfItem == "N"

\* the child items of the library: the PDF attachments of A and of B, whose
\* keys are the storage keys, and a note of B
ChildKeys == {"KA", "KB", "NB"}

\* data.parentItem of a raw item, "" for a top-level item
parentItem(key) ==
    IF key = "KA" THEN "A"
    ELSE IF key \in {"KB", "NB"} THEN "B"
    ELSE ""

\* data.contentType == 'application/pdf'
is_pdf_attachment(key) == key \in {"KA", "KB"}

\* links.attachment.attachmentType == 'application/pdf': the link the
\* library gives a top-level item to its attachment; here item A has it
attachment_link_pdf(key) == key = "A"

\* ZOT.children(key) holds a PDF attachment
child_pdf(key) ==
    \E c \in ChildKeys : parentItem(c) = key /\ is_pdf_attachment(c)

LibraryKeys == ItemIds \cup {"N"} \cup ChildKeys

has_pdf_always(item_id) == TRUE

\* _get_pdf_path_for_item finds a PDF: by the attachment link, else among
\* the children
has_pdf(item_id) == attachment_link_pdf(item_id) \/ child_pdf(item_id)

\* _process_item: (pdf_path, metadata), None for an item without a PDF
process_item(item_id) ==
    IF has_pdf(item_id) THEN <<Entry(item_id)>> ELSE <<>>

\* get_items_by_name, get_items_by_collection_id: the tuples of the items
\* the query resolved, those for which _process_item gave None left out
RECURSIVE get_items(_)
get_items(resolved) ==
    IF resolved = <<>>
    THEN <<>>
    ELSE process_item(Head(resolved)) \o get_items(Tail(resolved))

\* get_items_by_name: every item ZOT.items(q=...) gives goes to _process_item
get_items_by_name(resolved) == get_items(resolved)

\* item.get('data', {}).get('parentItem') is empty
is_top_level(key) == parentItem(key) = ""

\* get_items_by_collection_id: child items are skipped, then _process_item
get_items_by_collection_id(resolved) ==
    get_items(SelectSeq(resolved, is_top_level))

\* get_items_by_collection_name: [] when no collection has the name
get_items_by_collection_name(found, resolved) ==
    IF found THEN get_items_by_collection_id(resolved) ELSE <<>>

\* (Path(""), {})
NoItem == [pdf_path |-> "", metadata |-> [item_id |-> "", storage_key |-> ""]]

\* get_items_by_id: the tuple of the item, (Path(""), {}) when ZOT.item
\* raises or _process_item gives None
get_items_by_id(item_id, raises) ==
    IF ~raises /\ process_item(item_id) # <<>>
    THEN Head(process_item(item_id))
    ELSE NoItem

\* the items a query resolves: those of sel and, with noPdf, the item
\* without a PDF
ResolvedBy(sel, noPdf) ==
    [j \in 1..Len(sel) |-> sel[j].metadata.item_id] \o
        (IF noPdf THEN <<NoPdfItem>> ELSE <<>>)

\* lines 385-392: force, the fetched items, the empty items_to_process; the
\* history notes the resolved items that _process_item dropped
update_index_start ==
    /\ pc = "idle"
    /\ callNo < MaxCalls
    /\ \E sel \in Selections, noPdf \in BOOLEAN, f \in BOOLEAN :
          LET resolved == ResolvedBy(sel, noPdf)
          IN  /\ items' = get_items(resolved)
              /\ calls' = {<<"_process_item", resolved[j]>> :
                              j \in {n \in 1..Len(resolved) :
                                        ~has_pdf(resolved[n])}}
              /\ force' = (f \/ config.force_reindex)
    /\ callNo' = callNo + 1
    /\ pc' = "filter"
    /\ op' = "update_index"
    /\ items_to_process' = <<>>
    /\ pos' = 1
    /\ result' = EmptyResult
    /\ index0' = index
    /\ UNCHANGED <<last_splits, retrVars, loopVars, index, md, config, clock, markdown_files,
                   indexed_storage_keys>>

\* lines 394-410: one iteration of the filter loop
update_index_filter ==
    /\ pc = "filter"
    /\ pos <= Len(items)
    /\ LET e == items[pos]
           item_id == e.metadata.item_id
           existing_uids == uids_from_item_id(index, item_id)
           d == filter_decision(Cardinality(existing_uids) > 0, force)
       IN  IF item_id = ""
           THEN UNCHANGED <<index, items_to_process, calls>>
           ELSE /\ index' = IF d = "delete"
                            THEN delete_by_item_id(index, item_id)
                            ELSE index
                /\ calls' = IF d = "delete"
                            THEN calls \cup {<<"delete_by_item_id", item_id>>}
                            ELSE calls
                /\ items_to_process' = IF d = "skip"
                                       THEN items_to_process
                                       ELSE Append(items_to_process, e)
    /\ pos' = pos + 1
    /\ UNCHANGED <<last_splits, retrVars, loopVars, md, config, clock, callNo, pc, op, items, force, result,
                   markdown_files, indexed_storage_keys, index0>>

\* lines 413-414 and 209-215: enter _index_items_batch
update_index_batch_start ==
    /\ pc = "filter"
    /\ pos > Len(items)
    /\ pc' = "batch"
    /\ pos' = 1
    /\ result' = [EmptyResult EXCEPT !.total_items = Len(items_to_process)]
    /\ UNCHANGED <<last_splits, retrVars, loopVars, index, md, config, clock, callNo, op, items, force,
                   items_to_process, markdown_files, indexed_storage_keys,
                   index0, calls>>

\* lines 217-236: one iteration of the batch loop
index_items_batch_step ==
    /\ pc = "batch"
    /\ pos <= Len(items_to_process)
    /\ \E conv \in ConverterOutcomes, addOk \in BOOLEAN :
          LET e == items_to_process[pos]
              r == process_single_item(e, conv, addOk, index, md, clock)
          IN  /\ index' = r.coll
              /\ md' = r.md
              /\ clock' = IF r.used THEN clock + 1 ELSE clock
              /\ calls' = calls \cup {progress_callback(pos, result)}
                                \cup r.calls
              /\ result' = count_item(result, e, r)
    /\ pos' = pos + 1
    /\ UNCHANGED <<last_splits, retrVars, loopVars, config, callNo, pc, op, items, force, items_to_process,
                   markdown_files, indexed_storage_keys, index0>>

\* lines 238-247: the IndexingResult is returned
index_items_batch_return ==
    /\ pc = "batch"
    /\ pos > Len(items_to_process)
    /\ pc' = "returned"
    /\ UNCHANGED <<last_splits, retrVars, loopVars, index, md, config, clock, callNo, op, items, force,
                   items_to_process, pos, result, markdown_files,
                   indexed_storage_keys, index0, calls>>

\* the caller takes the result; the indexer is idle again
indexer_idle ==
    /\ pc = "returned"
    /\ pc' = "idle"
    /\ op' = "none"
    /\ items' = <<>>
    /\ force' = FALSE
    /\ items_to_process' = <<>>
    /\ pos' = 0
    /\ result' = EmptyResult
    /\ markdown_files' = <<>>
    /\ indexed_storage_keys' = {}
    /\ index0' = {}
    /\ calls' = {}
    /\ UNCHANGED <<last_splits, retrVars, loopVars, index, md, config, clock, callNo>>

(***************************************************************************)
(* index_all_markdown_files                                                *)
(***************************************************************************)
\* zotero_client.get_item_id_from_storage_key: the item whose attachment
\* directory is storage_key, "" when there is none
get_item_id_from_storage_key(storage_key) ==
    IF \E i \in ItemIds : StorageKeyOf(i) = storage_key
    THEN CHOOSE i \in ItemIds : StorageKeyOf(i) = storage_key
    ELSE ""

\* zotero_client.get_item_by_id: (pdf_path, metadata) of the item
get_item_by_id(item_id) == Entry(item_id)

\* lines 297-310: the files found, the storage keys indexed now
index_all_markdown_files_start ==
    /\ pc = "idle"
    /\ callNo < MaxCalls
    /\ \E files \in SeqsUpTo({k \in StorageKeys : md[k].exists},
                             Cardinality(StorageKeys)) :
          /\ NoDup(files)
          /\ Range(files) = {k \in StorageKeys : md[k].exists}
          /\ markdown_files' = files
          /\ result' = [EmptyResult EXCEPT !.total_items = Len(files)]
    /\ indexed_storage_keys' =
           LET stats == get_collection_stats(index)
           IN  {stats.items[i].storage_key : i \in DOMAIN stats.items}
    /\ callNo' = callNo + 1
    /\ pc' = "local"
    /\ op' = "index_all_markdown_files"
    /\ pos' = 1
    /\ index0' = index
    /\ calls' = {}
    /\ UNCHANGED <<last_splits, retrVars, loopVars, index, md, config, clock, items, force, items_to_process>>

\* lines 313-355: one iteration of the loop over the files; lookup is what
\* the library client does: it answers, or it raises
index_all_markdown_files_step ==
    /\ pc = "local"
    /\ pos <= Len(markdown_files)
    /\ LET storage_key == markdown_files[pos]
       IN  IF storage_key \in indexed_storage_keys /\ ~config.force_reindex
           THEN UNCHANGED <<index, clock, result, calls>>
           ELSE \E lookup \in {"ok", "raise"}, addOk \in BOOLEAN :
                   LET item_id == get_item_id_from_storage_key(storage_key)
                   IN  IF lookup = "raise"
                       THEN /\ result' =
                                 [result EXCEPT
                                    !.failed = @ + 1,
                                    !.failed_items =
                                        record_failed(@, storage_key,
                                            [item_id |-> "", storage_key |-> ""],
                                            "library client raised")]
                            /\ UNCHANGED <<index, clock, calls>>
                       ELSE IF item_id = ""
                       THEN UNCHANGED <<index, clock, result, calls>>
                       ELSE LET e == get_item_by_id(item_id)
                                r == process_markdown_and_index(
                                         md[storage_key].text, e.metadata,
                                         addOk, index, clock)
                            IN  /\ index' = r.coll
                                /\ clock' = IF r.used THEN clock + 1 ELSE clock
                                /\ calls' = calls \cup r.calls
                                /\ result' =
                                     count_item(result,
                                         [e EXCEPT !.pdf_path = storage_key], r)
    /\ pos' = pos + 1
    /\ UNCHANGED <<last_splits, retrVars, loopVars, md, config, callNo, pc, op, items, force, items_to_process,
                   markdown_files, indexed_storage_keys, index0>>

\* lines 357-366: the IndexingResult is returned
index_all_markdown_files_return ==
    /\ pc = "local"
    /\ pos > Len(markdown_files)
    /\ pc' = "returned"
    /\ UNCHANGED <<last_splits, retrVars, loopVars, index, md, config, clock, callNo, op, items, force,
                   items_to_process, pos, result, markdown_files,
                   indexed_storage_keys, index0, calls>>

(***************************************************************************)
(* Direct operations on the collection, between indexing calls.            *)
(***************************************************************************)
delete_by_item ==
    /\ pc = "idle"
    /\ \E item_id \in ItemIds :
          /\ index' = delete_by_item_id(index, item_id)
          /\ calls' = {<<"delete_by_item_id", item_id>>}
    /\ index0' = index
    /\ op' = "delete_by_item"
    /\ pc' = "returned"
    /\ UNCHANGED <<last_splits, retrVars, loopVars, md, config, clock, callNo, items, force,
                   items_to_process, pos, result, markdown_files,
                   indexed_storage_keys>>

\* clear_index(confirm): without confirm nothing is cleared
clear_index ==
    /\ pc = "idle"
    /\ \E confirm \in BOOLEAN : index' = IF confirm THEN {} ELSE index
    /\ UNCHANGED <<last_splits, retrVars, loopVars, md, config, clock, callNo, pc, op, items, force,
                   items_to_process, pos, result, markdown_files,
                   indexed_storage_keys, index0, calls>>

NextIndexer ==
    \/ update_index_start
    \/ update_index_filter
    \/ update_index_batch_start
    \/ index_items_batch_step
    \/ index_items_batch_return
    \/ index_all_markdown_files_start
    \/ index_all_markdown_files_step
    \/ index_all_markdown_files_return
    \/ indexer_idle
    \/ delete_by_item
    \/ clear_index

Init ==
    /\ InitIndexer
    /\ last_splits = <<>>
    /\ distance = <<>>
    /\ RetrieverIdle
    /\ LoopUnused

Next == NextIndexer

Spec == Init /\ [][Next]_vars

(***************************************************************************)
(* The selectors of the library client on their own: a query resolves raw  *)
(* items of the library, top-level and child items alike, and the selector *)
(* returns its list.  items holds the list, calls the keys resolved.       *)
(***************************************************************************)
\* raw items one query resolves
MaxResolved == 2

Resolutions == {r \in SeqsUpTo(LibraryKeys, MaxResolved) : NoDup(r)}

Fetched(selector, resolved, list) ==
    /\ pc' = "fetched"
    /\ op' = selector
    /\ items' = list
    /\ calls' = {<<"resolved", resolved[j]>> : j \in 1..Len(resolved)}
    /\ UNCHANGED <<last_splits, retrVars, loopVars, index, md, config, clock, callNo,
                   force, items_to_process, pos, result, markdown_files,
                   indexed_storage_keys, index0>>

select_by_name ==
    \E resolved \in Resolutions :
        /\ pc = "idle"
        /\ Fetched("get_items_by_name", resolved,
                   get_items_by_name(resolved))

select_by_id ==
    \E item_id \in LibraryKeys, raises \in BOOLEAN :
        /\ pc = "idle"
        /\ Fetched("get_items_by_id", <<item_id>>,
                   <<get_items_by_id(item_id, raises)>>)

select_by_collection_id ==
    \E resolved \in Resolutions :
        /\ pc = "idle"
        /\ Fetched("get_items_by_collection_id", resolved,
                   get_items_by_collection_id(resolved))

select_by_collection_name ==
    \E resolved \in Resolutions, found \in BOOLEAN :
        /\ pc = "idle"
        /\ Fetched("get_items_by_collection_name",
                   IF found THEN resolved ELSE <<>>,
                   get_items_by_collection_name(found, resolved))

\* the caller takes the list
select_done ==
    /\ pc = "fetched"
    /\ pc' = "idle"
    /\ op' = "none"
    /\ items' = <<>>
    /\ calls' = {}
    /\ UNCHANGED <<last_splits, retrVars, loopVars, index, md, config, clock, callNo,
                   force, items_to_process, pos, result, markdown_files,
                   indexed_storage_keys, index0>>

NextLibrary ==
    \/ select_by_name
    \/ select_by_id
    \/ select_by_collection_id
    \/ select_by_collection_name
    \/ select_done

SpecLibrary == Init /\ [][NextLibrary]_vars

MaxSplits == 5

chunk_call ==
    \E text \in SeqsUpTo({"tbl", "txt"}, MaxSplits), item_id \in ItemIds :
        /\ last_splits' = chunk_markdown(text, Entry(item_id).metadata, clock)
        /\ UNCHANGED <<idxVars, retrVars, loopVars>>

NextChunker == chunk_call

SpecChunker == Init /\ [][NextChunker]_vars

\* split j begins with '|'
IsTable(j) == last_splits[j].content = "tbl"

\* split j begins a run of table splits
BeginsRun(j) == IsTable(j) /\ (j = 1 \/ ~IsTable(j - 1))

Queries == {"q1", "q2"}

Distances == {1, 2}

\* largest k handed to multi_query_search
MaxK == 2

Min(a, b) == IF a < b THEN a ELSE b

\* the embedding of a chunk is a function of its text: chunks made twice
\* from one markdown file are equally far from a query
ContentKey(c) == <<c.item_id, c.split_id, c.content>>

DistanceOf(query, c) == distance[<<query, ContentKey(c)>>]

\* _format_search_results: the documents with the distance in the metadata
format_search_results(r, query) ==
    [j \in 1..Len(r) |->
        [uid |-> r[j].uid, item_id |-> r[j].item_id,
         storage_key |-> r[j].storage_key, split_id |-> r[j].split_id,
         table |-> r[j].table, content |-> r[j].content,
         added_at |-> r[j].added_at,
         distance |-> DistanceOf(query, r[j])]]

\* similarity_search_with_score: the n_results nearest chunks, nearest first;
\* the store orders chunks of equal distance as it likes
similarity_search_with_score(coll, query, n_results) ==
    LET m == Min(n_results, Cardinality(coll))
    IN  {r \in SeqsUpTo(coll, m) :
            /\ Len(r) = m
            /\ NoDup(r)
            /\ \A a, b \in 1..m :
                  a < b => DistanceOf(query, r[a]) <= DistanceOf(query, r[b])
            /\ \A c \in coll \ Range(r) : \A a \in 1..m :
                  DistanceOf(query, r[a]) <= DistanceOf(query, c)}

\* ChromaStorage.search without a metadata filter: the possible answers
search(coll, query, n_results) ==
    IF query = ""
    THEN {<<>>}
    ELSE {format_search_results(r, query) :
             r \in similarity_search_with_score(coll, query, n_results)}

\* doc_id = f"{doc.page_content[:100]}_{doc.metadata.get('item_id', '')}"
doc_id(doc) == <<doc.content, doc.item_id>>

\* doc_id not in seen_ids
is_new(id, seen) == id \notin seen

\* lines 115-120: the documents of one answer that are not seen yet
RECURSIVE collect_results(_, _, _)
collect_results(results, acc, seen) ==
    IF results = <<>>
    THEN [all_results |-> acc, seen_ids |-> seen]
    ELSE LET doc == Head(results)
         IN  IF is_new(doc_id(doc), seen)
             THEN collect_results(Tail(results), Append(acc, doc),
                                  seen \cup {doc_id(doc)})
             ELSE collect_results(Tail(results), acc, seen)

\* list.sort(key=distance) is stable: doc goes behind every element that is
\* not farther than it
RECURSIVE insert_by_distance(_, _)
insert_by_distance(sorted, doc) ==
    IF sorted = <<>>
    THEN <<doc>>
    ELSE IF Head(sorted).distance <= doc.distance
    THEN <<Head(sorted)>> \o insert_by_distance(Tail(sorted), doc)
    ELSE <<doc>> \o sorted

RECURSIVE sort_by_distance(_)
sort_by_distance(docs) ==
    IF docs = <<>>
    THEN <<>>
    ELSE insert_by_distance(
             sort_by_distance(SubSeq(docs, 1, Len(docs) - 1)), docs[Len(docs)])

\* all_results[:k]
truncate(docs, k) == SubSeq(docs, 1, Min(k, Len(docs)))

\* the arguments of a call
multi_query_search_start ==
    /\ mq_pc = "idle"
    /\ \E qs \in SeqsUpTo(Queries, 2), k \in 1..MaxK :
          /\ mq_queries' = qs
          /\ mq_k' = k
    /\ mq_pc' = "loop"
    /\ mq_pos' = 1
    /\ all_results' = <<>>
    /\ seen_ids' = {}
    /\ mq_results' = <<>>
    /\ UNCHANGED <<last_splits, idxVars, loopVars, distance>>

\* lines 113-120: one query
multi_query_search_query ==
    /\ mq_pc = "loop"
    /\ mq_pos <= Len(mq_queries)
    /\ \E results \in search(index, mq_queries[mq_pos], mq_k) :
          LET r == collect_results(results, all_results, seen_ids)
          IN  /\ all_results' = r.all_results
              /\ seen_ids' = r.seen_ids
    /\ mq_pos' = mq_pos + 1
    /\ UNCHANGED <<last_splits, idxVars, loopVars, distance, mq_pc, mq_queries, mq_k,
                   mq_results>>

\* lines 122-127: sort, truncate, return
multi_query_search_return ==
    /\ mq_pc = "loop"
    /\ mq_pos > Len(mq_queries)
    /\ mq_results' = truncate(sort_by_distance(all_results), mq_k)
    /\ mq_pc' = "returned"
    /\ UNCHANGED <<last_splits, idxVars, loopVars, distance, mq_queries, mq_k, mq_pos,
                   all_results, seen_ids>>

\* the caller takes the list
multi_query_search_done ==
    /\ mq_pc = "returned"
    /\ mq_pc' = "idle"
    /\ mq_queries' = <<>>
    /\ mq_k' = 0
    /\ mq_pos' = 0
    /\ all_results' = <<>>
    /\ seen_ids' = {}
    /\ mq_results' = <<>>
    /\ UNCHANGED <<last_splits, idxVars, loopVars, distance>>

\* The collections the retriever is run over are built the way the indexer
\* builds them: the chunks of item A's markdown file, the chunks of item B's
\* and, when again is set, the chunks of A's file as index_all_markdown_files
\* with force_reindex adds them on top of the old ones (lines 323-334, no
\* delete).  The files of the markdown directory may be written by hand
\* between the two runs ("manually added markdown files"), so the second
\* generation is made from a text of its own.
CollectionOf(textA, textB, again, textA2) ==
    LET a1 == add_documents({}, chunk_markdown(textA, Entry("A").metadata, 1), 1)
        b  == add_documents(a1, chunk_markdown(textB, Entry("B").metadata, 2), 2)
    IN  IF again
        THEN add_documents(b, chunk_markdown(textA2, Entry("A").metadata, 3), 3)
        ELSE b

RetrieverCollections ==
    {CollectionOf(ta, tb, again, ta2) :
        ta \in {<<"tbl", "txt">>},
        tb \in {<<>>, <<"txt">>},
        again \in BOOLEAN,
        ta2 \in {<<"txt", "txt">>, <<"tbl", "txt">>}}

InitRetriever ==
    /\ last_splits = <<>>
    /\ index \in RetrieverCollections
    /\ md = [k \in StorageKeys |-> NoFile]
    /\ config = [force_reindex |-> FALSE, skip_existing_markdown |-> TRUE]
    /\ clock = 4
    /\ callNo = 0
    /\ pc = "idle"
    /\ op = "none"
    /\ items = <<>>
    /\ force = FALSE
    /\ items_to_process = <<>>
    /\ pos = 0
    /\ result = EmptyResult
    /\ markdown_files = <<>>
    /\ indexed_storage_keys = {}
    /\ index0 = {}
    /\ calls = {}
    /\ distance \in [Queries \X {ContentKey(c) : c \in index} -> Distances]
    /\ RetrieverIdle
    /\ LoopUnused

NextRetriever ==
    \/ multi_query_search_start
    \/ multi_query_search_query
    \/ multi_query_search_return
    \/ multi_query_search_done

SpecRetriever == InitRetriever /\ [][NextRetriever]_vars

(***************************************************************************)
(* The research graph of zotero_question_graph.py.  A node that raises     *)
(* leaves the graph: no node catches an exception and the graph is built   *)
(* without a retry policy.                                                 *)
(***************************************************************************)
\* largest max_search_depth a caller passes in
MaxDepthInput == 2

\* largest max_docs_per_search a caller passes in
MaxDocsInput == 1

\* init_state: updates["max_search_depth"] = 5
DefaultMaxSearchDepth == 5

\* init_state: updates["max_docs_per_search"] = 10
DefaultMaxDocsPerSearch == 10

InputKeys == {"user_query", "max_search_depth", "max_docs_per_search",
              "exclude_references"}

\* every chunk equally far from every query: the store may answer in any order
EqualDistances(coll) ==
    [p \in Queries \X {ContentKey(c) : c \in coll} |-> 1]

LoopCollections ==
    {{}, CollectionOf(<<"tbl", "txt">>, <<"txt">>, FALSE, <<>>)}

\* _remove_references_from_documents reads metadata['levels'], a key no
\* chunk carries: it raises KeyError on the first document
remove_references_raises(documents) == documents # <<>>

\* np.array(current_docs): rounds of unequal length do not make an array of
\* documents; either the constructor raises ValueError or the elements of
\* the flattened array are the lists and doc.metadata raises AttributeError
flatten_raises(current_docs) ==
    \E a, b \in 1..Len(current_docs) :
        Len(current_docs[a]) # Len(current_docs[b])

\* f"{doc.metadata['item_id']}{doc.metadata['split_id']}"
current_doc_id(doc) == <<doc.item_id, "", doc.split_id>>

\* f'{doc.metadata.get("item_id")}_{doc.metadata.get('split_id')}'
new_doc_id(doc) == <<doc.item_id, "_", doc.split_id>>

\* lines 207-212: the ids left in new_docs_dict after the pops; the dict is
\* not read again
new_docs_dict_keys(current_docs, new_docs) ==
    {new_doc_id(new_docs[j]) : j \in 1..Len(new_docs)} \
        UNION {{current_doc_id(current_docs[a][b]) :
                   b \in 1..Len(current_docs[a])} :
               a \in 1..Len(current_docs)}

\* pd.DataFrame([]).groupby("title") raises KeyError
list_of_documents_to_string_raises(documents) == documents = <<>>

append_assessment_dropped(assessments, reasoning) == assessments

\* update['assessment_strings'].append(assessment.reasoning)
append_assessment(assessments, reasoning) == Append(assessments, reasoning)

judge_goto_end(stop, current_iteration, max_depth) ==
    IF stop THEN "END" ELSE "generate_search_query"

judge_goto_stop_only(stop, current_iteration, max_depth) ==
    IF stop THEN "final_answer" ELSE "generate_search_query"

\* assessment.stop or current_iteration >= state["max_search_depth"]
judge_goto(stop, current_iteration, max_depth) ==
    IF stop \/ current_iteration >= max_depth
    THEN "final_answer"
    ELSE "generate_search_query"

\* an exception leaves the graph; the state keeps the last checkpoint
Raise(reason) ==
    /\ node' = "raised"
    /\ error' = reason
    /\ UNCHANGED <<user_query, search_queries, retrieved_documents,
                   knowledge_strings, assessment_strings, search_loop_count,
                   max_search_depth, max_docs_per_search, exclude_references,
                   final_response, input_keys, cancel>>

\* app.invoke(input): the caller sets some of the scalar fields
invoke ==
    /\ node = "START"
    /\ \E keys \in SUBSET InputKeys,
          uq \in {"", "question"},
          depth \in 0..MaxDepthInput,
          docs \in 1..MaxDocsInput,
          excl \in BOOLEAN :
          /\ input_keys' = keys
          /\ user_query' = IF "user_query" \in keys THEN uq ELSE ""
          /\ max_search_depth' =
                IF "max_search_depth" \in keys THEN depth ELSE 0
          /\ max_docs_per_search' =
                IF "max_docs_per_search" \in keys THEN docs ELSE 0
          /\ exclude_references' =
                IF "exclude_references" \in keys THEN excl ELSE FALSE
    /\ node' = "init_state"
    /\ UNCHANGED <<last_splits, idxVars, retrVars, search_queries, retrieved_documents,
                   knowledge_strings, assessment_strings, search_loop_count,
                   final_response, cancel, error>>

\* the four lists and the counter are not inputs; "retrived_documents" is
\* never a key of the state, so retrieved_documents is always reset
init_state ==
    /\ node = "init_state"
    /\ user_query' =
          IF "user_query" \in input_keys
          THEN user_query ELSE "what is integrated information theory"
    /\ search_queries' = <<"seed">>
    /\ retrieved_documents' = <<<<>>>>
    /\ knowledge_strings' = <<"seed">>
    /\ assessment_strings' = <<"seed">>
    /\ search_loop_count' = 0
    /\ max_search_depth' =
          IF "max_search_depth" \in input_keys
          THEN max_search_depth ELSE DefaultMaxSearchDepth
    /\ max_docs_per_search' =
          IF "max_docs_per_search" \in input_keys
          THEN max_docs_per_search ELSE DefaultMaxDocsPerSearch
    /\ exclude_references' =
          IF "exclude_references" \in input_keys
          THEN exclude_references ELSE FALSE
    /\ node' = "check_for_user_query"
    /\ UNCHANGED <<last_splits, idxVars, retrVars, final_response, input_keys, cancel, error>>

check_for_user_query ==
    /\ node = "check_for_user_query"
    /\ node' = IF user_query = "" THEN "interrupted"
                                  ELSE "generate_search_query"
    /\ UNCHANGED <<last_splits, idxVars, retrVars, user_query, search_queries,
                   retrieved_documents, knowledge_strings, assessment_strings,
                   search_loop_count, max_search_depth, max_docs_per_search,
                   exclude_references, final_response, input_keys, cancel, error>>

\* the host resumes the interrupt with the user's reply
resume ==
    /\ node = "interrupted"
    /\ \E user_input \in {"", "question"} : user_query' = user_input
    /\ node' = "generate_search_query"
    /\ UNCHANGED <<last_splits, idxVars, retrVars, search_queries, retrieved_documents,
                   knowledge_strings, assessment_strings, search_loop_count,
                   max_search_depth, max_docs_per_search, exclude_references,
                   final_response, input_keys, cancel, error>>

generate_search_query ==
    /\ node = "generate_search_query"
    /\ \/ Raise("chat model")
       \/ /\ \E new_query \in Queries :
                search_queries' = Append(search_queries, new_query)
          /\ node' = "search"
          /\ UNCHANGED <<user_query, retrieved_documents, knowledge_strings,
                         assessment_strings, search_loop_count,
                         max_search_depth, max_docs_per_search,
                         exclude_references, final_response, input_keys, cancel,
                         error>>
    /\ UNCHANGED <<last_splits, idxVars, retrVars>>

\* the node search
search_node ==
    /\ node = "search"
    /\ \/ Raise("vector index")
       \/ \E new_docs \in search(index, search_queries[Len(search_queries)],
                                 max_docs_per_search * 2) :
             IF exclude_references /\ remove_references_raises(new_docs)
             THEN Raise("KeyError: 'levels'")
             ELSE IF flatten_raises(retrieved_documents)
             THEN Raise("numpy")
             ELSE /\ retrieved_documents' =
                        Append(retrieved_documents,
                               truncate(new_docs, max_docs_per_search))
                  /\ node' = "synthesize_knowledge"
                  /\ UNCHANGED <<user_query, search_queries,
                                 knowledge_strings, assessment_strings,
                                 search_loop_count, max_search_depth,
                                 max_docs_per_search, exclude_references,
                                 final_response, input_keys, cancel, error>>
    /\ UNCHANGED <<last_splits, idxVars, retrVars>>

synthesize_knowledge ==
    /\ node = "synthesize_knowledge"
    /\ IF list_of_documents_to_string_raises(
              retrieved_documents[Len(retrieved_documents)])
       THEN Raise("KeyError: 'title'")
       ELSE \/ Raise("chat model")
            \/ /\ knowledge_strings' = Append(knowledge_strings, "synthesis")
               /\ node' = "judge_information"
               /\ UNCHANGED <<user_query, search_queries, retrieved_documents,
                              assessment_strings, search_loop_count,
                              max_search_depth, max_docs_per_search,
                              exclude_references, final_response, input_keys, cancel,
                              error>>
    /\ UNCHANGED <<last_splits, idxVars, retrVars>>

judge_information ==
    /\ node = "judge_information"
    /\ \/ Raise("chat model")
       \/ \E stop \in BOOLEAN :
             /\ assessment_strings' =
                   append_assessment(assessment_strings, "reasoning")
             /\ search_loop_count' = search_loop_count + 1
             /\ node' = judge_goto(stop, search_loop_count, max_search_depth)
             /\ UNCHANGED <<user_query, search_queries, retrieved_documents,
                            knowledge_strings, max_search_depth,
                            max_docs_per_search, exclude_references,
                            final_response, input_keys, cancel, error>>
    /\ UNCHANGED <<last_splits, idxVars, retrVars>>

final_answer ==
    /\ node = "final_answer"
    /\ \/ Raise("chat model")
       \/ /\ final_response' = "report"
          /\ node' = "END"
          /\ UNCHANGED <<user_query, search_queries, retrieved_documents,
                         knowledge_strings, assessment_strings,
                         search_loop_count, max_search_depth,
                         max_docs_per_search, exclude_references, input_keys, cancel,
                         error>>
    /\ UNCHANGED <<last_splits, idxVars, retrVars>>

\* the host asks the running graph to stop; no node reads the request
set_cancel ==
    /\ node \notin {"unused", "END", "raised"}
    /\ ~cancel
    /\ cancel' = TRUE
    /\ UNCHANGED <<last_splits, idxVars, retrVars, node, user_query, search_queries,
                   retrieved_documents, knowledge_strings, assessment_strings,
                   search_loop_count, max_search_depth, max_docs_per_search,
                   exclude_references, final_response, input_keys, error>>

InitLoop ==
    /\ last_splits = <<>>
    /\ index \in LoopCollections
    /\ md = [k \in StorageKeys |-> NoFile]
    /\ config = [force_reindex |-> FALSE, skip_existing_markdown |-> TRUE]
    /\ clock = 4
    /\ callNo = 0
    /\ pc = "idle"
    /\ op = "none"
    /\ items = <<>>
    /\ force = FALSE
    /\ items_to_process = <<>>
    /\ pos = 0
    /\ result = EmptyResult
    /\ markdown_files = <<>>
    /\ indexed_storage_keys = {}
    /\ index0 = {}
    /\ calls = {}
    /\ distance = EqualDistances(index)
    /\ RetrieverIdle
    /\ node = "START"
    /\ user_query = ""
    /\ search_queries = <<>>
    /\ retrieved_documents = <<>>
    /\ knowledge_strings = <<>>
    /\ assessment_strings = <<>>
    /\ search_loop_count = 0
    /\ max_search_depth = 0
    /\ max_docs_per_search = 0
    /\ exclude_references = FALSE
    /\ final_response = ""
    /\ input_keys = {}
    /\ cancel = FALSE
    /\ error = ""

NextLoop ==
    \/ invoke
    \/ init_state
    \/ check_for_user_query
    \/ resume
    \/ generate_search_query
    \/ search_node
    \/ synthesize_knowledge
    \/ judge_information
    \/ final_answer
    \/ set_cancel

SpecLoop == InitLoop /\ [][NextLoop]_vars

(***************************************************************************)
(* Properties of the indexer, checked under Spec.                          *)
(***************************************************************************)
ChunksOf(coll, item_id) == {c \in coll : c.item_id = item_id}

InUpdateIndex == op = "update_index" /\ pc \in {"filter", "batch", "returned"}

\* the items of the selection that had chunks when the call started
IndexedAtStart == {i \in ItemIds : ChunksOf(index0, i) # {}}

SelectedIds == {items[j].metadata.item_id : j \in 1..Len(items)}

\* C1: during update_index with force, the collection never holds, for one
\* item_id, chunks that were there when the call started together with chunks
\* the call added; and add_documents is called for an item that had chunks
\* only after delete_by_item_id was called for it.
C1_NoMixedGenerations ==
    (InUpdateIndex /\ force) =>
        \A i \in ItemIds :
            /\ ~(/\ ChunksOf(index, i) \cap index0 # {}
                 /\ ChunksOf(index, i) \ index0 # {})
            /\ (i \in IndexedAtStart /\ <<"add_documents", i>> \in calls)
                   => <<"delete_by_item_id", i>> \in calls

C1_Witness ==
    /\ InUpdateIndex
    /\ force
    /\ pc = "returned"
    /\ \E i \in IndexedAtStart :
          /\ <<"delete_by_item_id", i>> \in calls
          /\ ChunksOf(index, i) # {}
          /\ ChunksOf(index, i) \cap index0 = {}

\* C2: an update_index without force leaves every item that already has
\* chunks as it is and calls neither the converter, the chunker nor
\* add_documents for it; over a selection of indexed items only, the
\* collection statistics after the call are those before it.
C2_SecondRunIsNoOp ==
    (InUpdateIndex /\ ~force) =>
        /\ \A i \in SelectedIds \cap IndexedAtStart :
              /\ ChunksOf(index, i) = ChunksOf(index0, i)
              /\ \A what \in {"converter", "chunk", "add_documents",
                              "delete_by_item_id"} : <<what, i>> \notin calls
        /\ (pc = "returned" /\ SelectedIds \subseteq IndexedAtStart)
              => get_collection_stats(index) = get_collection_stats(index0)

C2_Witness ==
    /\ InUpdateIndex
    /\ ~force
    /\ pc = "returned"
    /\ SelectedIds # {}
    /\ SelectedIds \subseteq IndexedAtStart
    /\ get_collection_stats(index).total_elements > 0

\* C3: between indexing operations, the split_ids of the chunks of every
\* item_id are pairwise distinct and are exactly 0..N-1, N the number of its
\* chunks.
C3_DenseSplitIds ==
    pc \in {"idle", "returned"} =>
        \A i \in ItemIds :
            LET cs == ChunksOf(index, i)
            IN  /\ \A c, d \in cs : c.split_id = d.split_id => c = d
                /\ {c.split_id : c \in cs} = 0..(Cardinality(cs) - 1)

\* the failure records of the entry e among the failed_items of the batch
RecordsOf(e) ==
    {n \in 1..Len(result.failed_items) :
        result.failed_items[n].pdf_path = e.pdf_path}

\* C4: in the batch of update_index every item processed so far either has
\* its chunks in the collection or has exactly one failure record with its
\* path, its metadata and a reason; the items not yet reached have none; and
\* the call returns only when every item of the batch has been processed.
C4_FailuresAreRecorded ==
    (op = "update_index" /\ pc \in {"batch", "returned"}) =>
        /\ result.failed = Len(result.failed_items)
        /\ \A j \in 1..Len(items_to_process) :
              LET e == items_to_process[j]
              IN  IF j >= pos
                  THEN RecordsOf(e) = {}
                  ELSE IF ChunksOf(index, e.metadata.item_id) = {}
                  THEN /\ Cardinality(RecordsOf(e)) = 1
                       /\ \A n \in RecordsOf(e) :
                             /\ result.failed_items[n].metadata = e.metadata
                             /\ result.failed_items[n].reason # ""
                  ELSE RecordsOf(e) = {}
        /\ pc = "returned" =>
              /\ pos = Len(items_to_process) + 1
              /\ result.successful + result.failed = Len(items_to_process)

C4_Witness ==
    /\ op = "update_index"
    /\ pc = "returned"
    /\ Len(items_to_process) = 2
    /\ RecordsOf(items_to_process[1]) = {1}
    /\ ChunksOf(index, items_to_process[2].metadata.item_id) # {}
    /\ result.successful = 1
    /\ result.failed = 1

\* C10: an update_index without force over a selection of items that all
\* have chunks already returns successful = 0, failed = 0,
\* chunks_created = 0 and no failed_items.
C10_AllSkippedResult ==
    (InUpdateIndex /\ ~force /\ pc = "returned" /\ SelectedIds # {}
        /\ SelectedIds \subseteq IndexedAtStart) =>
        /\ result.successful = 0
        /\ result.failed = 0
        /\ result.chunks_created = 0
        /\ result.failed_items = <<>>

C10_Witness ==
    /\ InUpdateIndex
    /\ ~force
    /\ pc = "returned"
    /\ Len(items) = 2
    /\ SelectedIds \subseteq IndexedAtStart
    /\ result.total_items = 0
    /\ result.successful = 0

\* the chunks of entry e in coll are those a run of the chunker over e's
\* present markdown file makes: one per split, numbered from 0
FromCurrentMarkdown(coll, e) ==
    LET text == md[e.metadata.storage_key].text
        cs == ChunksOf(coll, e.metadata.item_id)
    IN  /\ md[e.metadata.storage_key].exists
        /\ Len(text) >= 1
        /\ Cardinality(cs) = Len(text)
        /\ {<<c.split_id, c.content>> : c \in cs} =
               {<<j - 1, text[j]>> : j \in 1..Len(text)}

KeySet(coll) == {<<c.item_id, c.split_id>> : c \in coll}

UidSet(coll) == {c.uid : c \in coll}

\* a forced update_index has returned without a failure, and the collection
\* it started from held, for every selected item, the chunks of the same
\* markdown
SecondForcedRun ==
    /\ op = "update_index"
    /\ pc = "returned"
    /\ force
    /\ result.failed = 0
    /\ items # <<>>
    /\ \A j \in 1..Len(items) : FromCurrentMarkdown(index0, items[j])

\* C11: a forced update_index over items whose chunks from the same markdown
\* are in the collection ends with, for every selected item, as many chunks
\* as before, the same (item_id, split_id) and no uid that was in the
\* collection before; when the selection covers the collection, the total
\* number of chunks and the set of (item_id, split_id) of the two terminal
\* states are equal and the two sets of uids are disjoint.
C11_ForcedRerunSameShape ==
    SecondForcedRun =>
        /\ \A i \in SelectedIds :
              /\ Cardinality(ChunksOf(index, i)) =
                    Cardinality(ChunksOf(index0, i))
              /\ KeySet(ChunksOf(index, i)) = KeySet(ChunksOf(index0, i))
              /\ UidSet(ChunksOf(index, i)) \cap UidSet(index0) = {}
        /\ ({c.item_id : c \in index0} \subseteq SelectedIds) =>
              /\ Cardinality(index) = Cardinality(index0)
              /\ KeySet(index) = KeySet(index0)
              /\ UidSet(index) \cap UidSet(index0) = {}

C11_Witness ==
    /\ SecondForcedRun
    /\ Len(items) = 2
    /\ {c.item_id : c \in index0} = SelectedIds
    /\ Cardinality(index0) >= 3
    /\ index # index0

\* C12: index_all_markdown_files leaves an item that has chunks as it is and
\* makes no chunker or add call for it unless force_reindex is set; with
\* force_reindex an item whose file was added holds, when the call returns,
\* none of its old chunks and exactly the chunks the call made from its file.
C12_LocalReindexReplaces ==
    (op = "index_all_markdown_files" /\ pc = "returned") =>
        \A i \in IndexedAtStart :
            IF ~config.force_reindex
            THEN /\ ChunksOf(index, i) = ChunksOf(index0, i)
                 /\ <<"chunk", i>> \notin calls
                 /\ <<"add_documents", i>> \notin calls
            ELSE <<"add_documents", i>> \in calls =>
                    /\ ChunksOf(index, i) \cap index0 = {}
                    /\ Cardinality(ChunksOf(index, i)) =
                           Len(md[StorageKeyOf(i)].text)

\* C13: when the query of update_index resolved an item without a PDF, the
\* returned result counts it in failed and holds a failure record for it
\* with reason "no pdf", and every other item of the batch was processed.
C13_NoPdfIsRecorded ==
    (op = "update_index" /\ pc = "returned"
        /\ <<"_process_item", NoPdfItem>> \in calls) =>
        /\ result.failed >= 1
        /\ \E n \in 1..Len(result.failed_items) :
              /\ result.failed_items[n].metadata.item_id = NoPdfItem
              /\ result.failed_items[n].reason = "no pdf"
        /\ pos = Len(items_to_process) + 1

\* C18: chunk applied to an empty markdown file of the cache does not raise
\* and returns no chunks.
C18_EmptyMarkdownGivesNoChunks ==
    \A i \in ItemIds :
        LET file == md[StorageKeyOf(i)]
            r == chunk(file.text, Entry(i).metadata, clock)
        IN  (file.exists /\ file.text = <<>>) =>
                /\ ~r.raised
                /\ r.splits = <<>>

\* C20: delete_by_item(i) leaves no chunk and no uid of item i, returns the
\* number of chunks it removed (0 when i had none) and leaves the chunks of
\* every other item as they were.
C20_DeleteByItemFrame ==
    (op = "delete_by_item" /\ pc = "returned") =>
        \A i \in ItemIds :
            <<"delete_by_item_id", i>> \in calls =>
                /\ ChunksOf(index, i) = {}
                /\ uids_from_item_id(index, i) = {}
                /\ num_deleted(index0, i) = Cardinality(ChunksOf(index0, i))
                /\ num_deleted(index0, i) =
                       Cardinality(index0) - Cardinality(index)
                /\ \A o \in ItemIds \ {i} :
                       ChunksOf(index, o) = ChunksOf(index0, o)
                /\ index \subseteq index0

\* item i had chunks, another item too, and only i's are gone
C20_Witness ==
    /\ op = "delete_by_item"
    /\ pc = "returned"
    /\ \E i \in ItemIds :
          /\ <<"delete_by_item_id", i>> \in calls
          /\ Cardinality(ChunksOf(index0, i)) >= 2
          /\ index # {}
          /\ index # index0

ProgressCalls == {c \in calls : Len(c) = 3}

\* C25: the progress callback is called once per item of the batch, with
\* i/total after item i has been processed: when the call with index i is
\* made, i items have been processed.
C25_ProgressAfterEachItem ==
    (op = "update_index" /\ pc \in {"batch", "returned"}) =>
        /\ Cardinality(ProgressCalls) = pos - 1
        /\ \A c \in ProgressCalls :
              /\ c[2] \in 1..Len(items_to_process)
              /\ c[3] = c[2]

\* the chunks the running call has added
Added == index \ index0

\* the items of the batch with a failure record
FailedIds ==
    {result.failed_items[n].metadata.item_id :
        n \in 1..Len(result.failed_items)}

\* C27: the IndexingResult update_index returns has successful + failed =
\* total_items and as many failed_items as failed; chunks_created is the
\* number of chunks the call added to the collection, all of them chunks of
\* the successful items of the batch, none of a failed item.
C27_ResultCountsAddUp ==
    (op = "update_index" /\ pc = "returned") =>
        /\ result.total_items = Len(items_to_process)
        /\ result.successful + result.failed = result.total_items
        /\ Len(result.failed_items) = result.failed
        /\ result.chunks_created = Cardinality(Added)
        /\ get_collection_stats(index).total_elements =
              get_collection_stats(index \cap index0).total_elements
                  + result.chunks_created
        /\ \A c \in Added :
              /\ c.item_id \notin FailedIds
              /\ \E j \in 1..Len(items_to_process) :
                    items_to_process[j].metadata.item_id = c.item_id

\* a forced call over two indexed items returned: one was re-indexed with two
\* chunks, the other failed
C27_Witness ==
    /\ op = "update_index"
    /\ pc = "returned"
    /\ force
    /\ index0 # {}
    /\ result.total_items = 2
    /\ result.successful = 1
    /\ result.failed = 1
    /\ result.chunks_created = 2

\* C28: when a forced update_index returns, an item that had chunks at the
\* start and whose processing failed holds no chunk: delete_by_item_id was
\* called for it, none of its old chunks is back, and it has a failure
\* record; and a selected item left without chunks has such a record.
C28_FailedForcedItemIsEmpty ==
    (op = "update_index" /\ pc = "returned" /\ force) =>
        \A i \in IndexedAtStart \cap SelectedIds :
            /\ i \in FailedIds =>
                  /\ <<"delete_by_item_id", i>> \in calls
                  /\ ChunksOf(index, i) = {}
            /\ ChunksOf(index, i) = {} => i \in FailedIds

\* a forced call returned with an item that had chunks, failed and has none
C28_Witness ==
    /\ op = "update_index"
    /\ pc = "returned"
    /\ force
    /\ \E i \in IndexedAtStart \cap FailedIds :
          /\ ChunksOf(index0, i) # {}
          /\ ChunksOf(index, i) = {}
          /\ <<"converter", i>> \in calls

\* C29: during and after an update_index without force (neither the argument
\* nor config.force_reindex) every chunk that was in the collection when the
\* call started is still there, unchanged, and delete_by_item_id is not
\* called.
C29_UnforcedUpdateRemovesNothing ==
    (InUpdateIndex /\ ~force) =>
        /\ index0 \subseteq index
        /\ \A i \in ItemIds \cup {NoPdfItem} :
              <<"delete_by_item_id", i>> \notin calls

\* an unforced call over an indexed and a new item returned, having added
\* chunks beside the old ones
C29_Witness ==
    /\ op = "update_index"
    /\ pc = "returned"
    /\ ~force
    /\ index0 # {}
    /\ index0 \subseteq index
    /\ index # index0
    /\ Len(items) = 2

(***************************************************************************)
(* Properties of the retriever, checked under SpecRetriever.               *)
(***************************************************************************)
\* C8: the list multi_query_search returns has at most k elements, no two of
\* them with the same (item_id, split_id), and distances that do not
\* decrease along the list.
C8_MultiQueryResult ==
    mq_pc = "returned" =>
        /\ Len(mq_results) <= mq_k
        /\ \A a, b \in 1..Len(mq_results) :
              (a # b) =>
                  <<mq_results[a].item_id, mq_results[a].split_id>> #
                  <<mq_results[b].item_id, mq_results[b].split_id>>
        /\ \A a, b \in 1..Len(mq_results) :
              (a < b) => mq_results[a].distance <= mq_results[b].distance

\* query is sure to return doc: fewer than k chunks are as near as doc
SurelyReturned(query, doc) ==
    Cardinality({c \in index :
        DistanceOf(query, c) <= DistanceOf(query, doc)}) <= mq_k

\* position of doc in the list of the documents collected over the queries
PositionIn(docs, doc) == CHOOSE j \in 1..Len(docs) : docs[j] = doc

\* C19: a chunk several queries return is kept with the lowest of its
\* distances, and results of equal distance stand in the order in which the
\* queries first returned them.
C19_LowestDistanceKept ==
    mq_pc = "returned" =>
        /\ \A j \in 1..Len(all_results) : \A n \in 1..Len(mq_queries) :
              SurelyReturned(mq_queries[n], all_results[j]) =>
                  all_results[j].distance <=
                      DistanceOf(mq_queries[n], all_results[j])
        /\ \A a, b \in 1..Len(mq_results) :
              (a < b /\ mq_results[a].distance = mq_results[b].distance) =>
                  PositionIn(all_results, mq_results[a]) <
                      PositionIn(all_results, mq_results[b])

(***************************************************************************)
(* Properties of the research graph, checked under SpecLoop.               *)
(***************************************************************************)
\* C5: a chat-model failure at gen_query, synthesize, judge or finalize does
\* not stop the loop in a non-final state: the loop is at finalize or at END
\* with the failure reason as the last assessment, and at END
\* final_response is set.
C5_ChatFailureReachesFinalize ==
    /\ error = "chat model" =>
          /\ node \in {"final_answer", "END"}
          /\ assessment_strings[Len(assessment_strings)] = "chat model"
    /\ node = "raised" => error # "chat model"
    /\ node = "END" => final_response # ""

Started == node \notin {"START", "init_state"}

\* rounds begun: every run of gen_query adds one query behind the seed
RoundsStarted == Len(search_queries) - 1

RoundBoundary ==
    node \in {"check_for_user_query", "interrupted", "generate_search_query",
              "final_answer", "END"}

\* C7: at every round boundary the four sequences have length
\* search_loop_count + 1, the assessments behind the seed number
\* search_loop_count, and a round that ends has added one element to each.
C7_SequencesAligned ==
    RoundBoundary =>
        /\ Len(search_queries) = search_loop_count + 1
        /\ Len(retrieved_documents) = search_loop_count + 1
        /\ Len(knowledge_strings) = search_loop_count + 1
        /\ Len(assessment_strings) = search_loop_count + 1
        /\ Len(Tail(assessment_strings)) = search_loop_count

\* a round was completed with documents found, the loop is at finalize
C7_Witness ==
    /\ node = "final_answer"
    /\ search_loop_count = 1
    /\ Len(retrieved_documents) = 2
    /\ retrieved_documents[2] # <<>>
    /\ Len(assessment_strings) = 2

KeysOf(docs) == {<<docs[j].item_id, docs[j].split_id>> : j \in 1..Len(docs)}

\* C9: whenever the search node runs, references are kept and the vector
\* index answers, the node appends one round that holds no (item_id,
\* split_id) of an earlier round and hands over to synthesize; afterwards no
\* (item_id, split_id) is in two elements of retrieved_documents.
C9_SearchDropsKnownChunks ==
    [][(node = "search" /\ ~exclude_references /\ error' # "vector index") =>
          /\ node' = "synthesize_knowledge"
          /\ Len(retrieved_documents') = Len(retrieved_documents) + 1
          /\ \A a, b \in 1..Len(retrieved_documents') :
                (a # b) => KeysOf(retrieved_documents'[a]) \cap
                           KeysOf(retrieved_documents'[b]) = {}]_vars

\* C14: once the cancel flag is set, the next step of the loop ends the run
\* with a final_response and without a call of the chat model or of the
\* vector index: no query, round, synthesis or assessment is added and no
\* node raises.
C14_CancelEndsRun ==
    [][(cancel /\ node \notin {"END", "raised"}) =>
          /\ node' = "END"
          /\ final_response' # ""
          /\ search_queries' = search_queries
          /\ retrieved_documents' = retrieved_documents
          /\ knowledge_strings' = knowledge_strings
          /\ assessment_strings' = assessment_strings]_vars

\* C15: a step of the search node in which the vector index fails appends
\* one empty round to retrieved_documents and hands over to synthesize.
C15_SearchFailureAppendsEmptyRound ==
    [][(node = "search" /\ error' = "vector index") =>
          /\ node' = "synthesize_knowledge"
          /\ retrieved_documents' = Append(retrieved_documents, <<>>)]_vars

\* the graph was invoked without a user_query, or with an empty one
NoQueryGiven == "user_query" \notin input_keys \/ user_query = ""

\* C16: when the loop was started without a user_query, check_query suspends
\* at the interrupt; the loop is suspended nowhere else; it leaves the
\* interrupt only for gen_query, with the reply of the host as user_query.
C16_InterruptForMissingQuery ==
    [][/\ (node = "check_for_user_query" /\ node' # node /\ NoQueryGiven)
             => node' = "interrupted"
       /\ (node' = "interrupted" /\ node # "interrupted")
             => node = "check_for_user_query"
       /\ (node = "interrupted" /\ node' # "interrupted")
             => /\ node' = "generate_search_query"
                /\ user_query' \in {"", "question"}
                /\ search_queries' = search_queries]_vars

\* C17: with max_search_depth = 0 one round is run and no second one is
\* begun: the judge of the first round hands over to finalize whatever it
\* answers, so the counter is 1 exactly from finalize on.
C17_DepthZeroOneRound ==
    (Started /\ max_search_depth = 0) =>
        /\ RoundsStarted <= 1
        /\ search_loop_count <= 1
        /\ search_loop_count = 1 => node \in {"final_answer", "END", "raised"}
        /\ node \in {"final_answer", "END"} =>
              /\ search_loop_count = 1
              /\ RoundsStarted = 1
              /\ Len(retrieved_documents) = 2
              /\ Len(knowledge_strings) = 2
              /\ Len(assessment_strings) = 2

C17_Witness ==
    /\ max_search_depth = 0
    /\ "max_search_depth" \in input_keys
    /\ node = "final_answer"
    /\ search_loop_count = 1
    /\ Len(assessment_strings) = 2


\* C23: a judge step that returns appends the reasoning, adds one to
\* search_loop_count and goes to final_answer whenever the incremented count
\* has reached max_search_depth; it goes back to generate_search_query only
\* while the incremented count is below max_search_depth.
C23_JudgeComparesIncrementedCount ==
    [][(node = "judge_information" /\
        node' \in {"final_answer", "generate_search_query"}) =>
          /\ assessment_strings' = Append(assessment_strings, "reasoning")
          /\ search_loop_count' = search_loop_count + 1
          /\ search_loop_count' >= max_search_depth => node' = "final_answer"
          /\ node' = "generate_search_query" =>
                search_loop_count' < max_search_depth]_vars


\* the edges of the route init -> check_query -> gen_query -> search ->
\* synthesize -> judge -> {gen_query | finalize} -> END
ClaimedRoute ==
    {<<"START", "init_state">>,
     <<"init_state", "check_for_user_query">>,
     <<"check_for_user_query", "generate_search_query">>,
     <<"generate_search_query", "search">>,
     <<"search", "synthesize_knowledge">>,
     <<"synthesize_knowledge", "judge_information">>,
     <<"judge_information", "generate_search_query">>,
     <<"judge_information", "final_answer">>,
     <<"final_answer", "END">>}

\* a run waiting in its interrupt is still in check_for_user_query
Visited(n) == IF n = "interrupted" THEN "check_for_user_query" ELSE n

\* C24: control passes from node to node only along the edges of the route:
\* search is entered only from generate_search_query and left only to
\* synthesize_knowledge, which is left only to judge_information;
\* final_answer is entered only from judge_information and END only from
\* final_answer.  (A node that raises ends the run and passes control to no
\* node.)
C24_NodesFollowTheRoute ==
    [][(Visited(node') # Visited(node) /\ node' # "raised") =>
          <<Visited(node), Visited(node')>> \in ClaimedRoute]_vars

\* a run went once round the loop and from the judge back through
\* generate_search_query into its second search
C24_Witness ==
    /\ node = "search"
    /\ search_loop_count = 1
    /\ Len(search_queries) = 3
    /\ Len(knowledge_strings) = 2


\* C30: a run of the loop in which every call of the chat model and of the
\* vector index returns is not cut short before END: it stops in no node by
\* an exception, and it begins at most max_search_depth + 1 rounds.
C30_LoopEndsAtEnd ==
    /\ node = "raised" => error \in {"chat model", "vector index"}
    /\ Started => RoundsStarted <= max_search_depth + 1

====
